---- MODULE Spec2Model ----
(***************************************************************************)
(* Model of scripts/fonts/convert-texgyre-fonts.py: the batch driver that  *)
(* converts the TeX Gyre TrueType fonts into PostScript Type 42 resources. *)
(*                                                                         *)
(* The script is sequential.  Its state is the driver's position in        *)
(* PS_TO_FILENAME, the locals of the running process_font_entry call, the  *)
(* output directory, and what was printed.  The directory of source fonts  *)
(* and the conditions under which the font library or the output directory *)
(* fail are the environment; they are fixed by the initial state.          *)
(*                                                                         *)
(* fontTools (TTFont, subset.Subsetter) is an external library.  A font is *)
(* modelled by its glyph order (name, code point, outline box), its head   *)
(* box and the bytes TTFont.save yields; the binary layout of an sfnt is   *)
(* not modelled.                                                           *)
(***************************************************************************)
EXTENDS Integers, Sequences, FiniteSets, Bags, TLC

VARIABLES
  env,          \* per mapping entry: the source file and the output directory's condition
  fs,           \* the output directory: output file name -> content (NoFile when absent)
  stdout,       \* the messages printed so far
  pc,           \* where the script is
  idx,          \* position of the for loop in PS_TO_FILENAME (1-based)
  tt,           \* process_font_entry: the font object
  charstrings,  \* process_font_entry: the CharStrings definitions collected
  binary_data,  \* process_font_entry: the bytes of the saved font
  f,            \* process_font_entry: the open output file, the text f.write has
                \* accepted and how much of it the file object holds back
  offset        \* process_font_entry: byte offset of the sfnts loop

vars == <<env, fs, stdout, pc, idx, tt, charstrings, binary_data, f, offset>>

-----------------------------------------------------------------------------
(* Bounds of the model *)

\* The driver iterates the first NumEntries entries of PS_TO_FILENAME.
NumEntries == 3

\* The iterations a line loop is followed for.  The hex text of a chunk is
\* 2 * 32768 characters at most, which is 937 lines of 70.
MaxLines == 1000

-----------------------------------------------------------------------------
(* The static tables *)

\* A file name is kept as its parts, so that replace(".ttf", "") can be computed.

PS_TO_FILENAME ==
  << <<"TG-Heros", <<"texgyreheros-regular", ".ttf">>>>,
     <<"TG-Heros-Bold", <<"texgyreheros-bold", ".ttf">>>>,
     <<"TG-Heros-Oblique", <<"texgyreheros-italic", ".ttf">>>>,
     <<"TG-Heros-BoldOblique", <<"texgyreheros-bolditalic", ".ttf">>>>,
     <<"TG-Heros-Narrow", <<"texgyreheroscn-regular", ".ttf">>>>,
     <<"TG-Heros-Narrow-Bold", <<"texgyreheroscn-bold", ".ttf">>>>,
     <<"TG-Heros-Narrow-Oblique", <<"texgyreheroscn-italic", ".ttf">>>>,
     <<"TG-Heros-Narrow-BoldOblique", <<"texgyreheroscn-bolditalic", ".ttf">>>>,
     <<"TG-Termes", <<"texgyretermes-regular", ".ttf">>>>,
     <<"TG-Termes-Bold", <<"texgyretermes-bold", ".ttf">>>>,
     <<"TG-Termes-Italic", <<"texgyretermes-italic", ".ttf">>>>,
     <<"TG-Termes-BoldItalic", <<"texgyretermes-bolditalic", ".ttf">>>>,
     <<"TG-Cursor", <<"texgyrecursor-regular", ".ttf">>>>,
     <<"TG-Cursor-Bold", <<"texgyrecursor-bold", ".ttf">>>>,
     <<"TG-Cursor-Oblique", <<"texgyrecursor-italic", ".ttf">>>>,
     <<"TG-Cursor-BoldOblique", <<"texgyrecursor-bolditalic", ".ttf">>>>,
     <<"TG-Adventor", <<"texgyreadventor-regular", ".ttf">>>>,
     <<"TG-Adventor-Bold", <<"texgyreadventor-bold", ".ttf">>>>,
     <<"TG-Adventor-Oblique", <<"texgyreadventor-italic", ".ttf">>>>,
     <<"TG-Adventor-BoldOblique", <<"texgyreadventor-bolditalic", ".ttf">>>>,
     <<"TG-Bonum", <<"texgyrebonum-regular", ".ttf">>>>,
     <<"TG-Bonum-Bold", <<"texgyrebonum-bold", ".ttf">>>>,
     <<"TG-Bonum-Oblique", <<"texgyrebonum-italic", ".ttf">>>>,
     <<"TG-Bonum-BoldOblique", <<"texgyrebonum-bolditalic", ".ttf">>>>,
     <<"TG-Schola", <<"texgyreschola-regular", ".ttf">>>>,
     <<"TG-Schola-Bold", <<"texgyreschola-bold", ".ttf">>>>,
     <<"TG-Schola-Oblique", <<"texgyreschola-italic", ".ttf">>>>,
     <<"TG-Schola-BoldOblique", <<"texgyreschola-bolditalic", ".ttf">>>>,
     <<"TG-Pagella", <<"texgyrepagella-regular", ".ttf">>>>,
     <<"TG-Pagella-Bold", <<"texgyrepagella-bold", ".ttf">>>>,
     <<"TG-Pagella-Oblique", <<"texgyrepagella-italic", ".ttf">>>>,
     <<"TG-Pagella-BoldOblique", <<"texgyrepagella-bolditalic", ".ttf">>>>,
     <<"TG-Chorus", <<"texgyrechorus-mediumitalic", ".ttf">>>> >>

\* The dict literal, in insertion order, as (glyph name, code point) items.
STD_ENC_LITERAL ==
  << <<"space", 32>>, <<"exclam", 33>>, <<"quotedbl", 34>>, <<"numbersign", 35>>,
     <<"dollar", 36>>, <<"percent", 37>>, <<"ampersand", 38>>, <<"quoteright", 39>>,
     <<"parenleft", 40>>, <<"parenright", 41>>, <<"asterisk", 42>>, <<"plus", 43>>,
     <<"comma", 44>>, <<"hyphen", 45>>, <<"period", 46>>, <<"slash", 47>>,
     <<"colon", 58>>, <<"semicolon", 59>>, <<"less", 60>>, <<"equal", 61>>,
     <<"greater", 62>>, <<"question", 63>>, <<"at", 64>>, <<"bracketleft", 91>>,
     <<"backslash", 92>>, <<"bracketright", 93>>, <<"asciicircum", 94>>, <<"underscore", 95>>,
     <<"quoteleft", 96>>, <<"braceleft", 123>>, <<"bar", 124>>, <<"braceright", 125>>,
     <<"asciitilde", 126>>, <<"exclamdown", 161>>, <<"cent", 162>>, <<"sterling", 163>>,
     <<"fraction", 8260>>, <<"yen", 165>>, <<"florin", 402>>, <<"section", 167>>,
     <<"currency", 164>>, <<"quotesingle", 39>>, <<"quotedblleft", 8220>>, <<"guillemotleft", 171>>,
     <<"guilsinglleft", 8249>>, <<"guilsinglright", 8250>>, <<"fi", 64257>>, <<"fl", 64258>>,
     <<"endash", 8211>>, <<"dagger", 8224>>, <<"daggerdbl", 8225>>, <<"periodcentered", 183>>,
     <<"paragraph", 182>>, <<"bullet", 8226>>, <<"quotesinglbase", 8218>>, <<"quotedblbase", 8222>>,
     <<"quotedblright", 8221>>, <<"guillemotright", 187>>, <<"ellipsis", 8230>>, <<"perthousand", 8240>>,
     <<"questiondown", 191>>, <<"grave", 96>>, <<"acute", 180>>, <<"circumflex", 710>>,
     <<"tilde", 732>>, <<"macron", 175>>, <<"breve", 728>>, <<"dotaccent", 729>>,
     <<"dieresis", 168>>, <<"ring", 730>>, <<"cedilla", 184>>, <<"hungarumlaut", 733>>,
     <<"ogonek", 731>>, <<"caron", 711>>, <<"emdash", 8212>>, <<"AE", 198>>,
     <<"ordfeminine", 170>>, <<"Lslash", 321>>, <<"Oslash", 216>>, <<"OE", 338>>,
     <<"ordmasculine", 186>>, <<"ae", 230>>, <<"dotlessi", 305>>, <<"lslash", 322>>,
     <<"oslash", 248>>, <<"oe", 339>>, <<"germandbls", 223>>, <<"minus", 8722>> >>

DigitNames == <<"zero", "one", "two", "three", "four", "five", "six", "seven", "eight", "nine">>

UpperLetters ==
  <<"A", "B", "C", "D", "E", "F", "G", "H", "I", "J", "K", "L", "M",
    "N", "O", "P", "Q", "R", "S", "T", "U", "V", "W", "X", "Y", "Z">>

LowerLetters ==
  <<"a", "b", "c", "d", "e", "f", "g", "h", "i", "j", "k", "l", "m",
    "n", "o", "p", "q", "r", "s", "t", "u", "v", "w", "x", "y", "z">>

\* chr(c) for the code points of the ASCII letters.
chr(c) == IF c >= 97 THEN LowerLetters[c - 96] ELSE UpperLetters[c - 64]

\* The table after the three loops that add the digits and the letters.  The
\* loops insert keys the literal does not hold, so the items are appended.
STD_ENC_MAP ==
  STD_ENC_LITERAL
    \o [i \in 1..10 |-> <<DigitNames[i], 48 + (i - 1)>>]
    \o [i \in 1..26 |-> <<chr(65 + (i - 1)), 65 + (i - 1)>>]
    \o [i \in 1..26 |-> <<chr(97 + (i - 1)), 97 + (i - 1)>>]

\* STD_ENC_MAP.values()
StdEncValues == { STD_ENC_MAP[i][2] : i \in 1..Len(STD_ENC_MAP) }

\* The entries the driver iterates, in the mapping's order.
Entries == SubSeq(PS_TO_FILENAME, 1, NumEntries)

-----------------------------------------------------------------------------
(* Python helpers *)

Min(a, b) == IF a < b THEN a ELSE b

\* The sequence s as a tuple: the same value, held element by element.
AsTuple(s) == s \o <<>>

\* s[lo:hi] for 0 <= lo <= hi
Slice(s, lo, hi) == SubSeq(s, lo + 1, Min(hi, Len(s)))

\* filename.replace(".ttf", "")
StripTtf(filename) ==
  LET NotTtf(p) == p # ".ttf" IN SelectSeq(filename, NotTtf)

LowerHex == <<"0", "1", "2", "3", "4", "5", "6", "7", "8", "9", "a", "b", "c", "d", "e", "f">>

\* binascii.hexlify(chunk).decode("ascii"): two lower-case digits per byte, the
\* high nibble first.
hexlify(chunk) ==
  AsTuple([i \in 1..(2 * Len(chunk)) |->
             IF i % 2 = 1 THEN LowerHex[(chunk[(i + 1) \div 2] \div 16) + 1]
                          ELSE LowerHex[(chunk[i \div 2] % 16) + 1]])

UpperChar(c) ==
  CASE c = "a" -> "A" [] c = "b" -> "B" [] c = "c" -> "C"
    [] c = "d" -> "D" [] c = "e" -> "E" [] c = "f" -> "F"
    [] OTHER -> c

\* Mutant of upper: the text is left as it is.
NoUpper(s) == s

\* str.upper()
upper(s) == AsTuple([i \in 1..Len(s) |-> UpperChar(s[i])])

-----------------------------------------------------------------------------
(* The font library *)

\* A glyph: its name, the code point the cmap maps to it (0: none), the box
\* <<xMin, yMin, xMax, yMax>> of its outline (<<>>: no outline), and the names
\* of the glyphs it is composed of.
Glyph(name, uni, box, components) ==
  [name |-> name, uni |-> uni, box |-> box, components |-> components]

\* TTFont(source_file) of a file that parses.
TTFont(file) == [head |-> file.head, glyphs |-> file.glyphs, image |-> file.image]

\* The glyphs the subsetting retains besides those asked for: the glyphs a
\* retained glyph is composed of, and theirs.
RECURSIVE Closure(_, _)
Closure(glyphs, names) ==
  LET held == { i \in 1..Len(glyphs) : glyphs[i].name \in names }
      more == names \cup UNION { glyphs[i].components : i \in held }
  IN  IF more = names THEN names ELSE Closure(glyphs, more)

\* subsetter.populate(unicodes=...); subsetter.subset(tt), with the options the
\* script leaves at their defaults.  Glyph 0 is retained without its outline
\* (notdef_glyph on, notdef_outline off); the glyphs the cmap reaches from the
\* requested code points are retained, and the glyphs they are composed of;
\* the glyph order is kept; the cmap keeps the requested code points only.
Subset(font, unicodes) ==
  LET glyphs == font.glyphs
      requested == { glyphs[i].name : i \in { j \in 1..Len(glyphs) : glyphs[j].uni \in unicodes } }
      retained == Closure(glyphs, {glyphs[1].name} \cup requested)
      Retained(g) == g.name \in retained
      Pruned(g) ==
        IF g.name = glyphs[1].name THEN [g EXCEPT !.box = <<>>, !.components = {}]
        ELSE IF g.uni \in unicodes THEN g
        ELSE [g EXCEPT !.uni = 0]
      kept == SelectSeq(glyphs, Retained)
  IN  [font EXCEPT !.glyphs = [i \in 1..Len(kept) |-> Pruned(kept[i])]]

SetMin(S) == CHOOSE x \in S : \A y \in S : x <= y
SetMax(S) == CHOOSE x \in S : \A y \in S : x >= y

\* The bounding box the library recalculates from the outlines when it compiles
\* the font.
RecalcBBox(glyphs) ==
  LET boxes == { glyphs[i].box : i \in { j \in 1..Len(glyphs) : glyphs[j].box # <<>> } }
  IN  IF boxes = {} THEN [xMin |-> 0, yMin |-> 0, xMax |-> 0, yMax |-> 0]
      ELSE [xMin |-> SetMin({ b[1] : b \in boxes }), yMin |-> SetMin({ b[2] : b \in boxes }),
            xMax |-> SetMax({ b[3] : b \in boxes }), yMax |-> SetMax({ b[4] : b \in boxes })]

\* tt.save(buf): the font object after the save (its head recalculated) ...
Save(font) == [font EXCEPT !.head = RecalcBBox(font.glyphs)]

\* ... and buf.getvalue(): the bytes written, as the font's image describes them.
SavedBytes(font) ==
  AsTuple([i \in 1..font.image.len |-> (font.image.first + font.image.step * (i - 1)) % 256])

\* What tt.getBestCmap() returns: None, or a dict.
None == [none |-> TRUE, dict |-> <<>>]
Dict(d) == [none |-> FALSE, dict |-> d]

\* tt.getBestCmap(): code point -> glyph name, or None when the font has no
\* Unicode cmap subtable.  The subsetting drops a subtable it leaves empty.
getBestCmap(font) ==
  LET enc == { i \in 1..Len(font.glyphs) : font.glyphs[i].uni # 0 }
  IN  IF enc = {} THEN None
      ELSE Dict([u \in { font.glyphs[i].uni : i \in enc } |->
                   font.glyphs[CHOOSE i \in enc : font.glyphs[i].uni = u].name])

\* tt.getGlyphID(glyph_name): the glyph's index in the font's glyph order
getGlyphID(font, glyph_name) ==
  (CHOOSE i \in 1..Len(font.glyphs) : font.glyphs[i].name = glyph_name) - 1

\* Mutant of CollectCharstrings: a name whose code point the font does not map
\* is defined too, with index 0.
CollectCharstringsPlaceholder(font) ==
  LET cmap == getBestCmap(font).dict
  IN  [i \in 1..Len(STD_ENC_MAP) |->
         <<STD_ENC_MAP[i][1],
           IF STD_ENC_MAP[i][2] \in DOMAIN cmap
             THEN getGlyphID(font, cmap[STD_ENC_MAP[i][2]]) ELSE 0>>]

\* The loop over STD_ENC_MAP.items() that collects the CharStrings definitions,
\* each kept as (name, gid) for "/name gid def", cmap being a dict.  (When cmap
\* is None, the first "uni in cmap" raises TypeError.)
CollectCharstrings(font) ==
  LET cmap == getBestCmap(font).dict
      Mapped(item) == item[2] \in DOMAIN cmap
      kept == SelectSeq(STD_ENC_MAP, Mapped)
  IN  [i \in 1..Len(kept) |-> <<kept[i][1], getGlyphID(font, cmap[kept[i][2]])>>]

-----------------------------------------------------------------------------
(* The output file and the messages *)

CHUNK_SIZE == 32768

\* The width of a line of hex text: hex_str[hex_pos : hex_pos + 70]
LINE_WIDTH == 70

\* One f.write: what it writes, by kind, with the values formatted into it.
\* A write of kind "text" or "comment" holds its characters, in pieces.
Tok(k, v) == [k |-> k, v |-> v]

\* One print.
Msg(k, v) == [k |-> k, v |-> v]

\* Mutant of OutName: every entry is written to the same file.
OutNameFixed(ps_name) == <<"font", ".ps">>

\* os.path.join(dirname, "output", f"{ps_name}.ps")
OutName(ps_name) == <<ps_name, ".ps">>

\* A file of the output directory: the writes it holds, and after them the
\* number of characters of a write that has reached it only in part.
NoFile == [exists |-> FALSE, data |-> <<>>, tail |-> 0]

\* open(out_name, "w"): the file is created, or truncated if it exists.
Opened == [exists |-> TRUE, data |-> <<>>, tail |-> 0]

\* The writes of the CharStrings entries: four definitions per line.
CharstringWrites(cs) ==
  [j \in 1..(2 * Len(cs)) |->
     IF j % 2 = 1 THEN Tok("charstring", cs[(j + 1) \div 2])
     ELSE IF (j \div 2) % 4 = 0 THEN Tok("text", <<"\n">>) ELSE Tok("text", <<" ">>)]

\* Everything written before the sfnts loop.
Preamble(ps_name, filename, font, cs) ==
  << Tok("comment", <<"% Derived from ">> \o StripTtf(filename)
                     \o <<" which is licensed under the GUST Font License (GFL)\n">>),
     Tok("comment", <<"% The original TeXGyre fonts can be downloaded from ",
                      "https://www.gust.org.pl/projects/e-foundry/tex-gyre\n">>),
     Tok("comment", <<"% The license can be accessed at ",
                      "https://www.gust.org.pl/projects/e-foundry/licenses/GUST-FONT-LICENSE.txt/view",
                      "\n\n">>),
     Tok("text", <<"11 dict begin\n">>),
     Tok("FontName", <<ps_name>>),
     Tok("text", <<"  /FontType 42 def\n">>),
     Tok("text", <<"  /FontMatrix [1 0 0 1 0 0] def\n">>),
     Tok("text", <<"  /PaintType 0 def\n">>),
     Tok("text", <<"  /Encoding StandardEncoding def\n">>),
     Tok("FontBBox", <<font.head.xMin, font.head.yMin, font.head.xMax, font.head.yMax>>),
     Tok("CharStrings", <<Len(cs) + 5>>),
     Tok("text", <<"    /.notdef 0 def\n">>) >>
    \o CharstringWrites(cs)
    \o << Tok("text", <<"\n  end def\n">>),
          Tok("text", <<"  /sfnts [\n">>) >>

\* Everything written after the sfnts loop.
Postamble(ps_name) ==
  << Tok("text", <<"  ] def\n">>),
     Tok("definefont", <<ps_name>>) >>

\* len(str(n))
RECURSIVE DecLen(_)
DecLen(n) ==
  IF n < 0 THEN 1 + DecLen(-n) ELSE IF n < 10 THEN 1 ELSE 1 + DecLen(n \div 10)

\* The number of characters of the pieces of a text.
RECURSIVE PiecesLen(_)
PiecesLen(v) == IF v = <<>> THEN 0 ELSE Len(Head(v)) + PiecesLen(Tail(v))

\* The number of characters one f.write writes.
TextLen(t) ==
  CASE t.k \in {"text", "comment"} -> PiecesLen(t.v)
    [] t.k = "FontName" -> Len("  /FontName /") + Len(t.v[1]) + Len(" def\n")
    [] t.k = "FontBBox" ->
         Len("  /FontBBox [") + DecLen(t.v[1]) + Len(" ") + DecLen(t.v[2]) + Len(" ")
           + DecLen(t.v[3]) + Len(" ") + DecLen(t.v[4]) + Len("] def\n")
    [] t.k = "CharStrings" ->
         Len("  /CharStrings ") + DecLen(t.v[1]) + Len(" dict dup begin\n")
    [] t.k = "charstring" ->
         Len("    ") + Len("/") + Len(t.v[1]) + Len(" ") + DecLen(t.v[2]) + Len(" def")
    [] t.k = "<" -> Len("    <")
    [] t.k = "hexline" -> t.v[1] + Len(t.v[2]) + Len("\n")
    [] t.k = ">" -> Len("    >\n")
    [] t.k = "definefont" -> Len("/") + Len(t.v[1]) + Len(" currentdict end definefont pop\n")

\* The sum of the first n of the numbers sizes, each at least 1: the size of the
\* bag holding k as many times as sizes[k].
Sum(sizes, n) == BagCardinality(SubSeq(sizes, 1, n))

\* The number of characters of each of the writes ts.
TextLens(ts) == AsTuple([k \in 1..Len(ts) |-> TextLen(ts[k])])

\* The number of characters the first n of the writes ts write.
TotalLen(ts, n) == Sum(TextLens(ts), n)

\* The size of a file.
FileSize(file) == TotalLen(file.data, Len(file.data)) + file.tail

\* cum[k] is the sum of the first k of the numbers sizes.
Cums(sizes) == AsTuple([k \in 1..Len(sizes) |-> Sum(sizes, k)])
At(cum, k) == IF k = 0 THEN 0 ELSE cum[k]

\* The file once it holds the first size characters of the writes all, file
\* being what it held of them before: the writes that are whole, and a part of
\* the next one.
OnDisk(file, all, size) ==
  LET n0 == Len(file.data)
      base == TotalLen(file.data, n0)
      Held(cum) ==
        LET n == Cardinality({ k \in 1..Len(cum) : base + cum[k] <= size })
        IN  [exists |-> TRUE, data |-> SubSeq(all, 1, n0 + n),
             tail |-> size - (base + At(cum, n))]
  IN  IF size = base + file.tail THEN [file EXCEPT !.exists = TRUE]
      ELSE CHOOSE held \in { Held(cum) : cum \in { Cums(sizes) :
                               sizes \in {TextLens(SubSeq(all, n0 + 1, Len(all)))} } } : TRUE

-----------------------------------------------------------------------------
(* The open text file: open(out_name, "w") *)

\* The text layer of the file passes on what it has accepted once that is 8192
\* characters.
TEXT_CHUNK == 8192

\* The file object: the writes it has accepted, the characters pending in its
\* text layer, the characters in the buffer of its binary layer, the
\* characters the system has taken.
NoStream == [text |-> <<>>, pending |-> 0, buffered |-> 0, disk |-> 0]

\* The file object while writes are made to it: k of them were accepted, and a
\* write or the close has raised OSError.
StreamStates == [k : Nat, pending : Nat, buffered : Nat, disk : Nat, failed : BOOLEAN]

Resume(stream) ==
  [k |-> 0, pending |-> stream.pending, buffered |-> stream.buffered,
   disk |-> stream.disk, failed |-> FALSE]

\* The system refuses to let the file of the environment e grow to size.
Over(e, size) == e.out = "limited" /\ size > e.limit

\* The binary layer takes b characters from the text layer.  They go into its
\* buffer, of e.blksize characters, when there is room.  Otherwise the buffer
\* is written out; then b characters that would not fit the buffer are
\* written out too, and when the system takes only a part of them, the rest
\* is kept if it fits the buffer and written again if not.
BufferedWrite(e) ==
  [a \in [st : StreamStates, b : Nat] |->
     LET st == a.st
         b == a.b
         d == st.disk + st.buffered
     IN  IF b <= e.blksize - st.buffered THEN [st EXCEPT !.buffered = @ + b]
         ELSE IF Over(e, d) THEN [st EXCEPT !.failed = TRUE]
         ELSE IF b <= e.blksize THEN [st EXCEPT !.disk = d, !.buffered = b]
         ELSE IF e.out = "limited"
              THEN LET taken == Min(b, e.limit - d)
                   IN  IF d >= e.limit \/ b - taken > e.blksize
                       THEN [st EXCEPT !.failed = TRUE]
                       ELSE [st EXCEPT !.disk = d + taken, !.buffered = b - taken]
              ELSE [st EXCEPT !.disk = d + b, !.buffered = 0]]

\* The writes whose sizes add up to cum, from the k-th on, as far as the next
\* time the text layer passes on what is pending.  A write is added to what is
\* pending when the two are at most 8192 characters; if not, what is pending
\* is passed on first.  What is pending is passed on as soon as it is 8192
\* characters or more.
Step(cum, e) ==
  [st \in StreamStates |->
     IF st.failed THEN st
     ELSE LET n == Len(cum)
              base == At(cum, st.k)
              j == st.k + Cardinality({ i \in (st.k + 1)..n :
                                          st.pending + cum[i] - base <= TEXT_CHUNK })
              p == st.pending + At(cum, j) - base
          IN  IF p >= TEXT_CHUNK
              THEN BufferedWrite(e)[[st |-> [st EXCEPT !.k = j, !.pending = 0], b |-> p]]
              ELSE IF j = n THEN [st EXCEPT !.k = j, !.pending = p]
              ELSE IF p > 0
              THEN BufferedWrite(e)[[st |-> [st EXCEPT !.k = j + 1,
                                                      !.pending = cum[j + 1] - At(cum, j)],
                                     b |-> p]]
              ELSE [st EXCEPT !.k = j + 1, !.pending = cum[j + 1] - At(cum, j)]]

RECURSIVE Steps(_, _, _, _)
Steps(count, cum, e, st) ==
  IF count = 0 THEN st ELSE Step(cum, e)[Steps(count - 1, cum, e, st)]

\* All the writes whose sizes add up to cum.  What is passed on twice in a row
\* is more than 8192 characters.
Flow(cum, e, st) ==
  Steps(2 * ((st.pending + At(cum, Len(cum))) \div TEXT_CHUNK) + 3, cum, e, st)

\* f.close() at the exit of the with block: what is pending is passed on and
\* the buffer is written out.
Close(e) ==
  [st \in StreamStates |->
     IF st.failed THEN st
     ELSE LET passed == IF st.pending = 0 THEN st
                        ELSE BufferedWrite(e)[[st |-> [st EXCEPT !.pending = 0],
                                               b |-> st.pending]]
          IN  IF passed.failed \/ Over(e, passed.disk + passed.buffered)
              THEN [passed EXCEPT !.failed = TRUE]
              ELSE [passed EXCEPT !.disk = @ + passed.buffered, !.buffered = 0]]

\* The file object after the writes ts to it, and after the close if closing.
Outcome(stream, e, ts, closing) ==
  { IF closing THEN Close(e)[Flow(cum, e, Resume(stream))] ELSE Flow(cum, e, Resume(stream)) :
      cum \in { Cums(sizes) : sizes \in {TextLens(ts)} } }

\* The writes were all made and none raised.
Accepted(st, ts) == ~st.failed /\ st.k = Len(ts) /\ st.pending < TEXT_CHUNK

\* The file object as kept between the steps of the script.
Stream(st, text) ==
  [text |-> text, pending |-> st.pending, buffered |-> st.buffered, disk |-> st.disk]

-----------------------------------------------------------------------------
(* The script *)

NoFont == [head |-> RecalcBBox(<<>>), glyphs |-> <<>>, image |-> [len |-> 0, first |-> 0, step |-> 0]]

ps_name == Entries[idx][1]
filename == Entries[idx][2]
out_name == OutName(ps_name)

\* os.path.exists(source_file)
SourceExists == env[idx].file.kind # "missing"

\* Mutant of FontAtWrite: the font as loaded, the subsetting and the save
\* left out.
FontAsLoaded(file) == TTFont(file)

\* The font object as it is when the output is written: loaded, subsetted to the
\* code points of STD_ENC_MAP, saved.
FontAtWrite(file) == Save(Subset(TTFont(file), StdEncValues))

InCall == pc = "loop" /\ idx <= Len(Entries)

NoLocals ==
  /\ tt' = NoFont /\ charstrings' = <<>> /\ binary_data' = <<>>
  /\ f' = NoStream
  /\ offset' = 0

LocalsUnchanged == UNCHANGED <<tt, charstrings, binary_data, f, offset>>

\* __main__ up to the for loop.
Start ==
  /\ pc = "main"
  /\ stdout' = Append(stdout, Msg("Starting", <<Len(Entries)>>))
  /\ pc' = "loop"
  /\ UNCHANGED <<env, fs, idx>>
  /\ LocalsUnchanged

\* Mutant of Skipped: the output file is opened before the source is looked for.
SkippedTruncates ==
  /\ InCall
  /\ ~SourceExists
  /\ stdout' = stdout \o << Msg("Generating", <<ps_name, filename>>),
                            Msg("SKIPPED", <<filename>>) >>
  /\ fs' = [fs EXCEPT ![out_name] = Opened]
  /\ idx' = idx + 1
  /\ UNCHANGED <<env, pc>>
  /\ LocalsUnchanged

\* Mutant of Skipped: the script exits instead of returning from the call.
SkippedExits ==
  /\ InCall
  /\ ~SourceExists
  /\ stdout' = stdout \o << Msg("Generating", <<ps_name, filename>>),
                            Msg("SKIPPED", <<filename>>) >>
  /\ pc' = "aborted"
  /\ UNCHANGED <<env, fs, idx>>
  /\ LocalsUnchanged

\* Mutant of Skipped: the entry after the missing one is passed over.
SkippedSkipsNext ==
  /\ InCall
  /\ ~SourceExists
  /\ stdout' = stdout \o << Msg("Generating", <<ps_name, filename>>),
                            Msg("SKIPPED", <<filename>>) >>
  /\ idx' = idx + 2
  /\ UNCHANGED <<env, fs, pc>>
  /\ LocalsUnchanged

\* process_font_entry: the source file does not exist.
Skipped ==
  /\ InCall
  /\ ~SourceExists
  /\ stdout' = stdout \o << Msg("Generating", <<ps_name, filename>>),
                            Msg("SKIPPED", <<filename>>) >>
  /\ idx' = idx + 1
  /\ UNCHANGED <<env, fs, pc>>
  /\ LocalsUnchanged

\* Mutant of LoadError: the exception of TTFont is not caught.
LoadErrorRaises ==
  /\ InCall
  /\ SourceExists
  /\ env[idx].file.kind = "corrupt"
  /\ stdout' = Append(stdout, Msg("Generating", <<ps_name, filename>>))
  /\ pc' = "aborted"
  /\ UNCHANGED <<env, fs, idx>>
  /\ LocalsUnchanged

\* process_font_entry: TTFont raises; the exception is caught.
LoadError ==
  /\ InCall
  /\ SourceExists
  /\ env[idx].file.kind = "corrupt"
  /\ stdout' = stdout \o << Msg("Generating", <<ps_name, filename>>),
                            Msg("ERROR", <<filename>>) >>
  /\ idx' = idx + 1
  /\ UNCHANGED <<env, fs, pc>>
  /\ LocalsUnchanged

\* An exception nothing catches: the interpreter prints a traceback and exits.
Raise ==
  /\ pc' = "aborted"
  /\ stdout' = Append(stdout, Msg("Generating", <<ps_name, filename>>))
  /\ UNCHANGED <<env, idx>>
  /\ NoLocals

Loadable == InCall /\ SourceExists /\ env[idx].file.kind = "font"

\* Mutant of SubsetFailure: the exception of the subsetting is caught like that
\* of the load.
SubsetFailureCaught ==
  /\ Loadable
  /\ env[idx].file.fault = "subset"
  /\ stdout' = stdout \o << Msg("Generating", <<ps_name, filename>>),
                            Msg("ERROR", <<filename>>) >>
  /\ idx' = idx + 1
  /\ UNCHANGED <<env, fs, pc>>
  /\ LocalsUnchanged

\* process_font_entry: subsetter.subset(tt) raises.
SubsetFailure ==
  /\ Loadable
  /\ env[idx].file.fault = "subset"
  /\ Raise
  /\ UNCHANGED fs

\* The font of the entry, subsetted, has a cmap: tt.getBestCmap() is a dict.
HasCmap == getBestCmap(Subset(TTFont(env[idx].file), StdEncValues)) # None

\* process_font_entry: tt.getBestCmap() returns None, the subsetting having
\* left no code point mapped, and "uni in cmap" raises TypeError.
CmapFailure ==
  /\ Loadable
  /\ env[idx].file.fault # "subset"
  /\ ~HasCmap
  /\ Raise
  /\ UNCHANGED fs

\* process_font_entry: tt.save(buf) raises.
SaveFailure ==
  /\ Loadable
  /\ env[idx].file.fault = "save"
  /\ HasCmap
  /\ Raise
  /\ UNCHANGED fs

\* process_font_entry: open(out_name, "w") raises.
OpenFailure ==
  /\ Loadable
  /\ env[idx].file.fault = "none"
  /\ HasCmap
  /\ env[idx].out = "unwritable"
  /\ Raise
  /\ UNCHANGED fs

\* OSError was raised while the text all was being written to the output file,
\* or at its close: the file is left with what the system let it take.
Abandoned(all) == fs' = [fs EXCEPT ![out_name] = OnDisk(@, all, env[idx].limit)]

\* process_font_entry from the load to the start of the sfnts loop.  The open
\* creates the file or truncates it; the writes before the loop are fewer than
\* 8192 characters, so that they are all accepted and none has reached the file.
Convert ==
  /\ Loadable
  /\ env[idx].file.fault = "none"
  /\ HasCmap
  /\ env[idx].out \in {"ok", "limited"}
  /\ \E subsetted \in {Subset(TTFont(env[idx].file), StdEncValues)} :
     \E cs \in {CollectCharstrings(subsetted)} :
     \E font \in {FontAtWrite(env[idx].file)} :
     \E ts \in {Preamble(ps_name, filename, font, cs)} :
     \E st \in Outcome(NoStream, env[idx], ts, FALSE) :
       /\ Accepted(st, ts)
       /\ f' = Stream(st, ts)
       /\ tt' = font
       /\ charstrings' = cs
       /\ binary_data' = SavedBytes(font)
       /\ fs' = [fs EXCEPT ![out_name] = OnDisk(Opened, ts, st.disk)]
  /\ stdout' = Append(stdout, Msg("Generating", <<ps_name, filename>>))
  /\ offset' = 0
  /\ pc' = "sfnts"
  /\ UNCHANGED <<env, idx>>

\* segment = hex_str[hex_pos : hex_pos + 70], written as a line, indented
\* unless it is the first.
LineWrite(hex_str, hex_pos) ==
  Tok("hexline", <<IF hex_pos = 0 THEN 0 ELSE 6, Slice(hex_str, hex_pos, hex_pos + LINE_WIDTH)>>)

\* Mutant of NextHexPos: the position advances one character too far.
NextHexPosGap(hex_pos) == hex_pos + LINE_WIDTH + 1

\* Mutant of NextHexPos: the position does not advance.
NextHexPosStuck(hex_pos) == hex_pos

\* hex_pos += 70
NextHexPos(hex_pos) == hex_pos + LINE_WIDTH

\* The line loop at the head of an iteration: its position in hex_str and the
\* lines it has written.
LineLoopEntry == [hex_pos |-> 0, lines |-> <<>>]

\* while hex_pos < len(hex_str)
LineLoopGuard(hex_str, loop) == loop.hex_pos < Len(hex_str)

\* The body of the line loop, run once: a line is written, hex_pos advances.
LineLoopBody(hex_str, loop) ==
  [hex_pos |-> NextHexPos(loop.hex_pos),
   lines |-> Append(loop.lines, LineWrite(hex_str, loop.hex_pos))]

\* The line loop run from loop on, for as long as its guard holds and for n
\* iterations at most: the first half of them, then the rest.
RECURSIVE LineLoopRun(_, _, _)
LineLoopRun(hex_str, loop, n) ==
  IF n = 0 \/ ~LineLoopGuard(hex_str, loop) THEN loop
  ELSE IF n = 1 THEN LineLoopBody(hex_str, loop)
  ELSE CHOOSE end \in { LineLoopRun(hex_str, half, n - n \div 2) :
                          half \in {LineLoopRun(hex_str, loop, n \div 2)} } : TRUE

\* The line loop over the hex text of one chunk, followed for MaxLines
\* iterations.  It has ended if its guard no longer holds.
LineLoop(hex_str) == LineLoopRun(hex_str, LineLoopEntry, MaxLines)

\* What an iteration of the sfnts loop writes, its line loop having ended:
\* "<", the lines of the line loop, ">".
ChunkWrites(loop) == << Tok("<", <<>>) >> \o loop.lines \o << Tok(">", <<>>) >>

\* The sfnts loop: one iteration.  The chunk at offset is written as a segment,
\* "<", its lines, ">", and offset advances.  chunk, hexlified and hex_str are
\* the values the iteration computes, each computed once.  A line loop that has
\* not ended is not followed further: the script is in it.
SfntsChunk ==
  /\ pc = "sfnts"
  /\ offset < Len(binary_data)
  /\ \E chunk \in {Slice(binary_data, offset, offset + CHUNK_SIZE)} :
     \E hexlified \in {hexlify(chunk)} :
     \E hex_str \in {upper(hexlified)} :
     \E loop \in {LineLoop(hex_str)} :
       IF LineLoopGuard(hex_str, loop)
       THEN pc' = "lines" /\ UNCHANGED <<f, fs, offset>>
       ELSE \E ts \in {ChunkWrites(loop)} :
            \E st \in Outcome(f, env[idx], ts, FALSE) :
              /\ Accepted(st, ts)
              /\ f' = Stream(st, f.text \o ts)
              /\ fs' = [fs EXCEPT ![out_name] = OnDisk(@, f.text \o ts, st.disk)]
              /\ offset' = offset + CHUNK_SIZE
              /\ pc' = pc
  /\ UNCHANGED <<env, stdout, idx, tt, charstrings, binary_data>>

\* An exception nothing catches, raised after the sfnts loop was entered.
RaiseLate ==
  /\ pc' = "aborted"
  /\ UNCHANGED <<env, stdout, idx>>
  /\ NoLocals

\* The sfnts loop: a write of the iteration raises.
SfntsWriteFailure ==
  /\ pc = "sfnts"
  /\ offset < Len(binary_data)
  /\ \E chunk \in {Slice(binary_data, offset, offset + CHUNK_SIZE)} :
     \E hexlified \in {hexlify(chunk)} :
     \E hex_str \in {upper(hexlified)} :
     \E loop \in {LineLoop(hex_str)} :
       /\ ~LineLoopGuard(hex_str, loop)
       /\ \E ts \in {ChunkWrites(loop)} :
          \E st \in Outcome(f, env[idx], ts, FALSE) :
            /\ st.failed
            /\ Abandoned(f.text \o ts)
  /\ RaiseLate

\* The sfnts loop ends and one of the last writes, or the close of the file at
\* the exit of the with block, raises.
CloseFailure ==
  /\ pc = "sfnts"
  /\ ~(offset < Len(binary_data))
  /\ \E ts \in {Postamble(ps_name)} :
     \E st \in Outcome(f, env[idx], ts, TRUE) :
       /\ st.failed
       /\ Abandoned(f.text \o ts)
  /\ RaiseLate

\* The sfnts loop ends: the rest is written, the file closed, the call returns.
Finish ==
  /\ pc = "sfnts"
  /\ ~(offset < Len(binary_data))
  /\ \E ts \in {Postamble(ps_name)} :
     \E st \in Outcome(f, env[idx], ts, TRUE) :
       /\ Accepted(st, ts)
       /\ fs' = [fs EXCEPT ![out_name] = OnDisk(@, f.text \o ts, st.disk)]
  /\ stdout' = Append(stdout, Msg("Success", out_name))
  /\ idx' = idx + 1
  /\ pc' = "loop"
  /\ NoLocals
  /\ UNCHANGED env

\* The for loop is exhausted.
Complete ==
  /\ pc = "loop"
  /\ idx > Len(Entries)
  /\ stdout' = Append(stdout, Msg("complete", <<>>))
  /\ pc' = "done"
  /\ UNCHANGED <<env, fs, idx>>
  /\ LocalsUnchanged

Next ==
  \/ Start
  \/ Skipped
  \/ LoadError
  \/ SubsetFailure
  \/ CmapFailure
  \/ SaveFailure
  \/ OpenFailure
  \/ Convert
  \/ SfntsChunk
  \/ SfntsWriteFailure
  \/ CloseFailure
  \/ Finish
  \/ Complete

-----------------------------------------------------------------------------
(* The environment: source files and output directory *)

MissingFile == [kind |-> "missing"]
CorruptFile == [kind |-> "corrupt"]

\* A file the library parses.  fault: whether the library raises on it in the
\* subsetting pass or in the save.
FontFile(glyphs, image, fault) ==
  [kind |-> "font", head |-> RecalcBBox(glyphs), glyphs |-> glyphs,
   image |-> image, fault |-> fault]

Image(len, first, step) == [len |-> len, first |-> first, step |-> step]

Notdef == Glyph(".notdef", 0, <<50, 0, 450, 700>>, {})

\* Glyphs a source font may hold besides .notdef.  uni0027 and grave carry the
\* code points two names of STD_ENC_MAP share; alpha has a code point that is
\* not in STD_ENC_MAP; dot has no code point and colon is composed of it; space
\* has no outline.
GlyphPool ==
  << Glyph("alpha", 945, <<-50, -300, 900, 950>>, {}),
     Glyph("dot", 0, <<70, -10, 170, 90>>, {}),
     Glyph("uni0027", 39, <<80, 400, 160, 700>>, {}),
     Glyph("A", 65, <<10, 0, 660, 720>>, {}),
     Glyph("grave", 96, <<60, 550, 250, 750>>, {}),
     Glyph("space", 32, <<>>, {}),
     Glyph("colon", 58, <<70, -10, 170, 510>>, {"dot"}),
     Glyph("g", 103, <<30, -220, 520, 480>>, {}) >>

PoolNames == { GlyphPool[i].name : i \in 1..Len(GlyphPool) }

\* The glyph order of a font holding .notdef and the pool glyphs named in S.
GlyphOrder(S) ==
  LET Held(g) == g.name \in S IN <<Notdef>> \o SelectSeq(GlyphPool, Held)

\* The sets of pool glyphs that make a font: a glyph comes with the glyphs it
\* is composed of.
GlyphSets ==
  { S \in SUBSET PoolNames :
      \A i \in 1..Len(GlyphPool) : GlyphPool[i].name \in S => GlyphPool[i].components \subseteq S }

SmallImage == Image(36, 171, 37)

SmallFont(fault) == FontFile(GlyphOrder({"alpha", "A"}), SmallImage, fault)

\* A font that holds none of the code points of STD_ENC_MAP.
UnmappedFont(fault) == FontFile(GlyphOrder({"alpha"}), SmallImage, fault)

\* An entry's environment: its source file; whether the output file can be
\* opened, and grow without limit or up to a size in characters; the block
\* size of the file system, which the file object takes as its buffer size.
Case(file, out) == [file |-> file, out |-> out, limit |-> 0, blksize |-> 4096]
LimitedCase(file, limit) ==
  [file |-> file, out |-> "limited", limit |-> limit, blksize |-> 4096]

\* The outcomes of one entry: skipped, load error, converted, and the five
\* failures nothing catches, the output file limited to less than the output.
BatchCases ==
  { Case(MissingFile, "ok"), Case(CorruptFile, "ok"), Case(SmallFont("none"), "ok"),
    Case(SmallFont("subset"), "ok"), Case(UnmappedFont("none"), "ok"),
    Case(SmallFont("save"), "ok"),
    Case(SmallFont("none"), "unwritable"), LimitedCase(SmallFont("none"), 600) }

\* Sizes the output file is limited to: nothing, inside the first lines, the
\* size of what the first entry writes before the sfnts loop, inside its last
\* writes, the size of all it writes, and more than that.  The output of the
\* small font is all held back until the close.
Limits == {0, 100, 565, 680, 705, 1000}

LimitCases == { LimitedCase(SmallFont("none"), n) : n \in Limits }

\* The outcomes of the first entry.
FirstCases == BatchCases \cup LimitCases

\* A font whose output is more than the file object holds back: the limit is
\* met in the sfnts loop, or, with a larger buffer or a larger limit, at the
\* close.
MidFont == FontFile(GlyphOrder({"A"}), Image(4096, 171, 37), "none")

FlushCases ==
  { LimitedCase(MidFont, 1000),
    [LimitedCase(MidFont, 1000) EXCEPT !.blksize = 8192],
    LimitedCase(MidFont, 9000),
    LimitedCase(MidFont, 10000) }

\* Fonts over every choice of pool glyphs.
GlyphCases ==
  { Case(FontFile(GlyphOrder(S), Image(2, 171, 37), "none"), "ok") : S \in GlyphSets }

\* Lengths of the saved font around the line and the chunk boundaries.
SmallLens == {0, 1, 34, 35, 36, 70, 71}
LargeLens == {CHUNK_SIZE - 1, CHUNK_SIZE, CHUNK_SIZE + 1, 2 * CHUNK_SIZE, 2 * CHUNK_SIZE + 1}

\* Fonts of the small lengths, and a font of two chunks.
LoopCases ==
  { Case(FontFile(GlyphOrder({"A"}), Image(n, first, step), "none"), "ok") :
      n \in SmallLens, first \in {0, 171}, step \in {1, 37} }
  \cup
  { Case(FontFile(GlyphOrder({"A"}), Image(CHUNK_SIZE + 1, 171, 37), "none"), "ok") }

SfntsCases ==
  LoopCases
  \cup
  { Case(FontFile(GlyphOrder({"A"}), Image(n, 171, 37), "none"), "ok") : n \in LargeLens }
  \cup
  { LimitedCase(FontFile(GlyphOrder({"A"}), Image(CHUNK_SIZE + 1, 171, 37), "none"), 20000),
    LimitedCase(FontFile(GlyphOrder({"A"}), Image(CHUNK_SIZE + 1, 171, 37), "none"), 72000),
    LimitedCase(FontFile(GlyphOrder({"A"}), Image(2 * CHUNK_SIZE, 171, 37), "none"), 100000) }
  \cup FlushCases

OutNames == { OutName(Entries[i][1]) : i \in 1..Len(Entries) }

\* An output file a previous run left.
OldFile == [exists |-> TRUE, data |-> << Tok("text", <<"old">>) >>, tail |-> 0]

InitScript ==
  /\ stdout = <<>>
  /\ pc = "main"
  /\ idx = 1
  /\ tt = NoFont /\ charstrings = <<>> /\ binary_data = <<>>
  /\ f = NoStream
  /\ offset = 0

\* The output directory is empty, or holds a file of a previous run for every
\* entry.
InitOutput == \E old \in {NoFile, OldFile} : fs = [n \in OutNames |-> old]

\* The first entry has a font whose output is passed on before the close, the
\* other source files are missing.
InitFlush ==
  /\ \E first \in FlushCases :
       env = [i \in 1..NumEntries |-> IF i = 1 THEN first ELSE Case(MissingFile, "ok")]
  /\ fs = [n \in OutNames |-> NoFile]
  /\ InitScript

\* Every entry takes any of the batch outcomes, the first also any of the
\* limits.
InitBatch ==
  /\ \E first \in FirstCases :
     \E rest \in [2..NumEntries -> BatchCases] :
       env = [i \in 1..NumEntries |-> IF i = 1 THEN first ELSE rest[i]]
  /\ InitOutput
  /\ InitScript

Init == InitBatch \/ InitFlush

\* The first entry takes any font of the pool, or any batch outcome; the others
\* are missing or convert.
RestCases == { Case(MissingFile, "ok"), Case(SmallFont("none"), "ok") }

InitGlyphs ==
  \/ /\ \E first \in GlyphCases \cup FirstCases :
        \E rest \in [2..NumEntries -> RestCases] :
          env = [i \in 1..NumEntries |-> IF i = 1 THEN first ELSE rest[i]]
     /\ InitOutput
     /\ InitScript
  \/ InitFlush

\* The first entry takes a font whose saved bytes have any of the lengths, or any
\* batch outcome; the other source files are missing.
InitSfnts ==
  /\ \E first \in SfntsCases \cup FirstCases :
       env = [i \in 1..NumEntries |-> IF i = 1 THEN first ELSE Case(MissingFile, "ok")]
  /\ fs = [n \in OutNames |-> NoFile]
  /\ InitScript

Spec == Init /\ [][Next]_vars

SpecGlyphs == InitGlyphs /\ [][Next]_vars

SpecSfnts == InitSfnts /\ [][Next]_vars

\* The batches, and the fonts of the small lengths, of two chunks, and of an
\* output that is passed on before the close; the output directory empty.
InitLive ==
  \/ /\ \E first \in FirstCases :
        \E rest \in [2..NumEntries -> BatchCases] :
          env = [i \in 1..NumEntries |-> IF i = 1 THEN first ELSE rest[i]]
     /\ fs = [n \in OutNames |-> NoFile]
     /\ InitScript
  \/ /\ \E first \in LoopCases \cup FlushCases :
          env = [i \in 1..NumEntries |-> IF i = 1 THEN first ELSE Case(MissingFile, "ok")]
     /\ fs = [n \in OutNames |-> NoFile]
     /\ InitScript

\* The script is sequential: whenever it has a next step, it takes it.
SpecLive == InitLive /\ [][Next]_vars /\ WF_vars(Next)
-----------------------------------------------------------------------------
(* Reading the output back *)

Name(i) == Entries[i][1]

OutFile(i) == fs[OutName(Name(i))]

\* The call for entry i has returned after writing its file.
Converted(i) == \E k \in 1..Len(stdout) : stdout[k] = Msg("Success", OutName(Name(i)))

\* The bytes of the saved font of entry i, from the environment.
FontBytes(i) ==
  LET im == env[i].file.image
  IN  AsTuple([b \in 1..im.len |-> (im.first + im.step * (b - 1)) % 256])

\* The positions of the tokens of kind k in the token sequence d.
Positions(d, k) == { p \in 1..Len(d) : d[p].k = k }

\* The text of the lines d[lo..hi], one after the other.
RECURSIVE LinesText(_, _, _)
LinesText(d, lo, hi) ==
  IF lo > hi THEN <<>>
  ELSE IF lo = hi THEN d[lo].v[2]
  ELSE LET mid == (lo + hi) \div 2
       IN  LinesText(d, lo, mid) \o LinesText(d, mid + 1, hi)

\* All hex characters of the file, in emission order.
HexText(d) ==
  LET IsLine(t) == t.k = "hexline"
      ls == SelectSeq(d, IsLine)
  IN  LinesText(ls, 1, Len(ls))

HexVal(c) ==
  CASE c = "0" -> 0 [] c = "1" -> 1 [] c = "2" -> 2 [] c = "3" -> 3 [] c = "4" -> 4
    [] c = "5" -> 5 [] c = "6" -> 6 [] c = "7" -> 7 [] c = "8" -> 8 [] c = "9" -> 9
    [] c \in {"a", "A"} -> 10 [] c \in {"b", "B"} -> 11 [] c \in {"c", "C"} -> 12
    [] c \in {"d", "D"} -> 13 [] c \in {"e", "E"} -> 14 [] c \in {"f", "F"} -> 15

\* Hex decoding: two digits per byte, the high nibble first.
unhexlify(h) ==
  AsTuple([b \in 1..(Len(h) \div 2) |-> 16 * HexVal(h[2 * b - 1]) + HexVal(h[2 * b])])

-----------------------------------------------------------------------------
(* C1 *)

\* C1: for every converted entry, the hex characters of all sfnts lines of its
\* output, concatenated in emission order and hex-decoded, are exactly the bytes
\* of the saved font: nothing is dropped, duplicated or reordered at a chunk or
\* a line boundary.
C1_HexRoundTrip ==
  \A i \in 1..Len(Entries) :
    Converted(i) =>
      LET h == HexText(OutFile(i).data)
      IN  /\ Len(h) = 2 * env[i].file.image.len
          /\ unhexlify(h) = FontBytes(i)

\* A converted font whose saved bytes span three chunks, the last of one byte.
C1_Witness ==
  /\ Converted(1)
  /\ env[1].file.image.len = 2 * CHUNK_SIZE + 1
  /\ Len(HexText(OutFile(1).data)) = 4 * CHUNK_SIZE + 2

-----------------------------------------------------------------------------
(* C9 *)

UpperHexChars == {"0", "1", "2", "3", "4", "5", "6", "7", "8", "9", "A", "B", "C", "D", "E", "F"}

\* ceil(n / CHUNK_SIZE)
ChunkCount(n) == (n + CHUNK_SIZE - 1) \div CHUNK_SIZE

\* The shape of the sfnts array of a finished file d for a saved font of n bytes.
SfntsShape(d, n) ==
  LET opens == Positions(d, "<")
      closes == Positions(d, ">")
      first == CHOOSE p \in 1..Len(d) : d[p] = Tok("text", <<"  /sfnts [\n">>)
      last == CHOOSE p \in 1..Len(d) : d[p] = Tok("text", <<"  ] def\n">>)
      CloseOf(o) == SetMin({ c \in closes : c > o })
      Bytes(o) == Len(LinesText(d, o + 1, CloseOf(o) - 1)) \div 2
  IN  /\ Cardinality(opens) = ChunkCount(n)
      /\ Cardinality(closes) = ChunkCount(n)
      \* between "/sfnts [" and "] def" there are only whole segments
      /\ \A p \in (first + 1)..(last - 1) : d[p].k \in {"<", "hexline", ">"}
      /\ opens \cup closes \cup Positions(d, "hexline") \subseteq (first + 1)..(last - 1)
      /\ opens # {} => first + 1 \in opens /\ last - 1 \in closes
      /\ \A o \in opens :
           /\ \E c \in closes : c > o
           /\ \A p \in (o + 1)..(CloseOf(o) - 1) : d[p].k = "hexline"
           /\ CloseOf(o) + 1 \in opens \cup {last}
           \* the segment's lines
           /\ \A p \in (o + 1)..(CloseOf(o) - 1) :
                /\ Len(d[p].v[2]) <= LINE_WIDTH
                /\ p < CloseOf(o) - 1 => Len(d[p].v[2]) = LINE_WIDTH
                /\ \A q \in 1..Len(d[p].v[2]) : d[p].v[2][q] \in UpperHexChars
           \* the segment's bytes
           /\ Bytes(o) >= 1
           /\ Bytes(o) <= CHUNK_SIZE
           /\ CloseOf(o) + 1 # last => Bytes(o) = CHUNK_SIZE

\* C9: the sfnts array of a converted entry holds ceil(n / 32768) segments, each
\* between "<" and ">"; every segment but the last encodes 32768 bytes and the
\* last between 1 and 32768 (none at all when n = 0); every line holds at most 70
\* hex characters, every line but the last of its segment exactly 70, and all
\* hex letters are upper-case.
C9_SfntsShape ==
  \A i \in 1..Len(Entries) :
    Converted(i) => SfntsShape(OutFile(i).data, env[i].file.image.len)

\* A converted font of 32769 bytes: a full segment whose last line is short,
\* then a segment of one byte.
C9_Witness ==
  /\ Converted(1)
  /\ env[1].file.image.len = CHUNK_SIZE + 1
  /\ Cardinality(Positions(OutFile(1).data, "<")) = 2
  /\ \E p \in Positions(OutFile(1).data, "hexline") : Len(OutFile(1).data[p].v[2]) = 2
-----------------------------------------------------------------------------
(* C2 *)

\* The glyphs of the source font of entry i, as the file holds them.
SourceGlyphs(i) == env[i].file.glyphs

\* The positions, in the source font, of the glyphs whose code point
\* STD_ENC_MAP names.
Encoded(i) ==
  { j \in 1..Len(SourceGlyphs(i)) :
      \E m \in 1..Len(STD_ENC_MAP) : STD_ENC_MAP[m][2] = SourceGlyphs(i)[j].uni }

\* The positions X of the glyphs G, with the positions of the glyphs that
\* those are composed of, n times over.
RECURSIVE WithParts(_, _, _)
WithParts(G, X, n) ==
  IF n = 0 THEN X
  ELSE WithParts(G, X \cup { r \in 1..Len(G) : \E j \in X : G[r].name \in G[j].components },
                 n - 1)

\* The positions, in the source font, of the glyphs that survive the subsetting:
\* .notdef, the glyphs whose code point STD_ENC_MAP names, and the glyphs those
\* are composed of.
Survivors(i) ==
  LET G == SourceGlyphs(i)
      notdef == { j \in 1..Len(G) : G[j].name = ".notdef" }
  IN  WithParts(G, notdef \cup Encoded(i), Len(G))

\* The CharStrings definitions of a file, in emission order, as (name, index).
Definitions(d) ==
  LET IsDef(t) == t.k = "charstring"
      ds == SelectSeq(d, IsDef)
  IN  [p \in 1..Len(ds) |-> ds[p].v]

\* C2: in the output of a converted entry every name of STD_ENC_MAP whose code
\* point the font maps is defined exactly once, with the index its glyph has in
\* the subsetted font; a name whose code point the font does not map is not
\* defined at all; nothing else is defined.  Names sharing a code point are each
\* defined, with the same index.
C2_CharStrings ==
  \A i \in 1..Len(Entries) :
    Converted(i) =>
      LET G == SourceGlyphs(i)
          S == Survivors(i)
          defs == Definitions(OutFile(i).data)
      IN  /\ \A m \in 1..Len(STD_ENC_MAP) :
               LET name == STD_ENC_MAP[m][1]
                   uni == STD_ENC_MAP[m][2]
                   hits == { p \in 1..Len(defs) : defs[p][1] = name }
                   glyphs == { j \in 1..Len(G) : G[j].uni = uni }
               IN  IF glyphs = {} THEN hits = {}
                   ELSE /\ Cardinality(hits) = 1
                        /\ \A p \in hits : \E j \in glyphs :
                             defs[p][2] = Cardinality({ r \in S : r < j })
          /\ \A p \in 1..Len(defs) : \E m \in 1..Len(STD_ENC_MAP) : STD_ENC_MAP[m][1] = defs[p][1]

\* A converted font in which a dropped glyph (alpha) precedes the glyph of code
\* point 0x27, and which lacks the glyph of "g": quoteright and quotesingle are
\* both defined with index 1, and g is not defined.
C2_Witness ==
  /\ Converted(1)
  /\ Len(SourceGlyphs(1)) >= 3
  /\ SourceGlyphs(1)[2].name = "alpha"
  /\ SourceGlyphs(1)[3].uni = 39
  /\ LET defs == Definitions(OutFile(1).data)
     IN  /\ \E p \in 1..Len(defs) : defs[p] = <<"quoteright", 1>>
         /\ \E p \in 1..Len(defs) : defs[p] = <<"quotesingle", 1>>
         /\ \A p \in 1..Len(defs) : defs[p][1] # "g"

-----------------------------------------------------------------------------
(* C8 *)

\* The boxes of the outlines that survive the subsetting of entry i's font:
\* those of the surviving glyphs, but for .notdef, which is left empty.
SurvivingBoxes(i) ==
  LET S == Survivors(i)
  IN  { SourceGlyphs(i)[j].box :
          j \in { r \in S : SourceGlyphs(i)[r].name # ".notdef" /\ SourceGlyphs(i)[r].box # <<>> } }

\* C8: the FontBBox of a converted entry is written once and holds xMin, yMin,
\* xMax, yMax, in this order, of the head table of the subsetted font: the box
\* around the outlines that survive the subsetting.
C8_FontBBox ==
  \A i \in 1..Len(Entries) :
    Converted(i) =>
      LET d == OutFile(i).data
          B == SurvivingBoxes(i)
      IN  /\ Cardinality(Positions(d, "FontBBox")) = 1
          /\ \A p \in Positions(d, "FontBBox") :
               IF B = {} THEN d[p].v = <<0, 0, 0, 0>>
               ELSE d[p].v = << SetMin({ b[1] : b \in B }), SetMin({ b[2] : b \in B }),
                                SetMax({ b[3] : b \in B }), SetMax({ b[4] : b \in B }) >>

\* A converted font of .notdef and uni0027: the box written is that of uni0027,
\* the outline of .notdef left out, and differs from the head box as loaded.
C8_Witness ==
  /\ Converted(1)
  /\ Len(SourceGlyphs(1)) = 2
  /\ SourceGlyphs(1)[2].name = "uni0027"
  /\ LET h == env[1].file.head
         d == OutFile(1).data
     IN  \E p \in Positions(d, "FontBBox") :
           /\ d[p].v = <<80, 400, 160, 700>>
           /\ d[p].v # <<h.xMin, h.yMin, h.xMax, h.yMax>>
-----------------------------------------------------------------------------
(* The batch *)

Printed(m) == \E p \in 1..Len(stdout) : stdout[p] = m

\* "Generating <ps_name> from <source_file>..." of entry i: the call for it started.
Generating(i) == Msg("Generating", <<Name(i), Entries[i][2]>>)

\* The size of a segment of b bytes: "    <", the hex digits, a newline after
\* each line, six blanks before each line but the first, "    >\n".
SegmentSize(b) ==
  LET lines == (2 * b + 69) \div 70
  IN  5 + 2 * b + lines + 6 * (lines - 1) + 6

\* The size of the whole output of entry i, were nothing to fail.
OutputSize(i) ==
  LET file == env[i].file
      pre == Preamble(Name(i), Entries[i][2], FontAtWrite(file),
                      CollectCharstrings(Subset(TTFont(file), StdEncValues)))
      post == Postamble(Name(i))
      n == file.image.len
  IN  TotalLen(pre, Len(pre))
        + (n \div 32768) * SegmentSize(32768)
        + (IF n % 32768 = 0 THEN 0 ELSE SegmentSize(n % 32768))
        + TotalLen(post, Len(post))

\* The output of entry i is larger than the output file may become: a write
\* raises.
WriteFails(i) == env[i].out = "limited" /\ env[i].limit < OutputSize(i)

\* The font of entry i holds none of the code points of STD_ENC_MAP: the
\* subsetting leaves it without a cmap and the loop over STD_ENC_MAP raises.
Unmapped(i) == Encoded(i) = {}

\* Entry i fails in a way process_font_entry does not handle: its font parses,
\* and the subsetting, the loop over STD_ENC_MAP, the save, the open, a write
\* or the close raises.
Unhandled(i) ==
  /\ env[i].file.kind = "font"
  /\ \/ env[i].file.fault # "none"
     \/ Unmapped(i)
     \/ env[i].out = "unwritable"
     \/ WriteFails(i)

\* Entry i has a present, valid source and nothing fails while it is converted.
Convertible(i) ==
  /\ env[i].file.kind = "font"
  /\ env[i].file.fault = "none"
  /\ ~Unmapped(i)
  /\ env[i].out # "unwritable"
  /\ ~WriteFails(i)

\* The script has ended: normally, or by an exception nothing caught.
Terminated == pc \in {"done", "aborted"}

-----------------------------------------------------------------------------
(* C3 *)

\* C3: the call for an entry whose source file does not exist changes no output
\* file (none created, truncated or modified) and returns to the for loop, which
\* goes on with the next entry.
C3_MissingSourceSkipped ==
  [][ (pc = "loop" /\ idx <= Len(Entries) /\ env[idx].file.kind = "missing")
        => (fs' = fs /\ pc' = "loop" /\ idx' = idx + 1) ]_vars

\* Entry 1 was skipped, the file an earlier run left for it is as it was, and
\* the call for entry 2 has started.
C3_Witness ==
  /\ Printed(Msg("SKIPPED", <<Entries[1][2]>>))
  /\ env[1].file.kind = "missing"
  /\ OutFile(1) = OldFile
  /\ Printed(Generating(2))

-----------------------------------------------------------------------------
(* C4 *)

\* C4: the call for an entry whose source file exists and does not parse reports
\* the error and returns to the for loop, which goes on with the next entry: the
\* script is not aborted and no output file is opened or written.
C4_LoadErrorCaught ==
  [][ (pc = "loop" /\ idx <= Len(Entries) /\ env[idx].file.kind = "corrupt")
        => (/\ fs' = fs
            /\ pc' = "loop"
            /\ idx' = idx + 1
            /\ stdout'[Len(stdout')] = Msg("ERROR", <<Entries[idx][2]>>)) ]_vars

\* The load of entry 1 failed and was reported, no file was written for it, and
\* entry 2 was converted after it.
C4_Witness ==
  /\ Printed(Msg("ERROR", <<Entries[1][2]>>))
  /\ env[1].file.kind = "corrupt"
  /\ OutFile(1) \in {NoFile, OldFile}
  /\ Converted(2)

-----------------------------------------------------------------------------
(* C5 *)

\* C5 as stated: whatever failed before it, an entry that can be converted is
\* converted by the time the script ends.
C5_AnyFailureIndependent ==
  Terminated => \A j \in 1..Len(Entries) : Convertible(j) => Converted(j)

\* C5, amended: an entry that can be converted is converted by the time the
\* script ends, provided every failure before it is one process_font_entry
\* handles (a missing source file, a load failure).
C5_HandledFailureIndependent ==
  Terminated =>
    \A j \in 1..Len(Entries) :
      (Convertible(j) /\ \A i \in 1..(j - 1) : ~Unhandled(i)) => Converted(j)

\* The script ended after a missing source, then a load failure, then a
\* conversion.
C5_Witness ==
  /\ Terminated
  /\ env[1].file.kind = "missing"
  /\ env[2].file.kind = "corrupt"
  /\ Converted(3)

-----------------------------------------------------------------------------
(* C6 *)

\* C6: once the call for an entry has started and the subsetting, the save, the
\* open or the writing of the output fails in it, the script is aborted at that
\* entry, at once or, when the output file cannot take the output, by the
\* write or the close at which the system refuses it, the file left with what
\* it could take: the call returns no success, the call for no later entry
\* ever starts and "Batch processing complete." is never printed.
C6_UnhandledAborts ==
  \A i \in 1..Len(Entries) :
    (Printed(Generating(i)) /\ Unhandled(i)) =>
      /\ pc \in {"sfnts", "aborted"}
      /\ pc = "sfnts" => WriteFails(i)
      /\ (pc = "aborted" /\ WriteFails(i)) => FileSize(OutFile(i)) = env[i].limit
      /\ idx = i
      /\ ~Printed(Msg("complete", <<>>))
      /\ ~Printed(Msg("Success", OutName(Name(i))))
      /\ \A j \in (i + 1)..Len(Entries) : ~Printed(Generating(j))

\* The script was aborted at entry 1 because the output file could not take
\* the output, which left a part of it, and entry 2, which could be converted,
\* was never started.
C6_Witness ==
  /\ pc = "aborted"
  /\ idx = 1
  /\ Positions(OutFile(1).data, "<") # {}
  /\ OutFile(1).tail > 0
  /\ Convertible(2)
  /\ OutFile(2) \in {NoFile, OldFile}

-----------------------------------------------------------------------------
(* C7 *)

\* The file of entry i was written by this run.
WrittenNow(i) == OutFile(i) \notin {NoFile, OldFile}

\* C7: the output of a converted entry is the file <key>.ps, and its FontName
\* and its closing definefont both name the key; a step of the script changes
\* no file but that of the entry being converted; the keys name distinct files;
\* and when the batch completes, the files written are exactly those of the
\* entries whose source is present and loads.
C7_OneFilePerEntry ==
  /\ [](/\ Cardinality(OutNames) = Len(Entries)
        /\ \A i \in 1..Len(Entries) :
             Converted(i) =>
               LET d == OutFile(i).data
               IN  /\ OutFile(i).exists
                   /\ Cardinality(Positions(d, "FontName")) = 1
                   /\ \A p \in Positions(d, "FontName") : d[p].v = <<Name(i)>>
                   /\ Positions(d, "definefont") = {Len(d)}
                   /\ d[Len(d)].v = <<Name(i)>>
        /\ pc = "done" =>
             \A i \in 1..Len(Entries) :
               /\ WrittenNow(i) <=> env[i].file.kind = "font"
               /\ WrittenNow(i) <=> Converted(i))
  /\ [][ \A n \in OutNames :
           fs'[n] # fs[n] => (idx <= Len(Entries) /\ n = <<Entries[idx][1], ".ps">>) ]_vars

\* The batch completed with entries 1 and 2 both converted, each into its own
\* file.
C7_Witness ==
  /\ pc = "done"
  /\ Converted(1)
  /\ Converted(2)
  /\ OutFile(1).data[5] = Tok("FontName", <<Entries[1][1]>>)
  /\ OutFile(2).data[5] = Tok("FontName", <<Entries[2][1]>>)

-----------------------------------------------------------------------------
(* C10 *)

\* The "Generating" messages printed so far.
Started ==
  LET IsGenerating(m) == m.k = "Generating" IN SelectSeq(stdout, IsGenerating)

\* Nothing fails in a way that aborts the batch.
NoUnhandledFailure == \A i \in 1..Len(Entries) : ~Unhandled(i)

\* The calls so far were made for the entries in the mapping's order, one call
\* per entry, and each call returned before the next one started.
InOrderOneAtATime ==
  /\ Len(Started) <= Len(Entries)
  /\ \A p \in 1..Len(Started) : Started[p] = Generating(p)
  /\ \A p \in 1..Len(stdout) :
       stdout[p].k = "Generating" =>
         IF p < Len(stdout) THEN stdout[p + 1].k \in {"SKIPPED", "ERROR", "Success"}
         ELSE pc \in {"sfnts", "aborted"}
  /\ pc = "sfnts" => Len(Started) = idx
  /\ pc \in {"loop", "done"} => Len(Started) = idx - 1

\* The batch has completed: every entry had its call and completion is reported.
Completed ==
  /\ pc = "done"
  /\ Len(Started) = Len(Entries)
  /\ stdout[Len(stdout)] = Msg("complete", <<>>)

\* What is left to do: the entries whose call has not returned, whether the
\* script or the call is yet to begin, the chunks left in the sfnts loop.
Rank ==
  LET bytesLeft == IF offset < Len(binary_data) THEN Len(binary_data) - offset ELSE 0
  IN  << Len(Entries) + 1 - idx,
         CASE pc = "main" -> 3 [] pc = "loop" -> 2 [] pc \in {"sfnts", "lines"} -> 1
           [] OTHER -> 0,
         ChunkCount(bytesLeft) >>

\* No conversion is in a line loop that has not ended: every line loop, run
\* from hex_pos = 0 by its guard and its body, has come to hex_pos >=
\* len(hex_str), and the iteration of the sfnts loop that holds it has gone on.
LineLoopsEnd == pc # "lines"

\* a comes before b in the lexicographic order of tuples of naturals
LexLess(a, b) ==
  \E k \in 1..Len(a) : a[k] < b[k] /\ \A m \in 1..(k - 1) : a[m] = b[m]

\* C10: the calls are made once per entry, in the mapping's order, one at a
\* time; the line loop of every chunk ends; every step of the script, the
\* iterations of the sfnts loop included, lessens what is left to do, so that
\* the sfnts loop ends too; and when nothing fails unhandled the script reaches
\* its end, reporting completion.
C10_SequentialAndTerminates ==
  /\ []InOrderOneAtATime
  /\ []LineLoopsEnd
  /\ [][LexLess(Rank', Rank)]_vars
  /\ NoUnhandledFailure => <>Completed

\* The batch completed after a conversion whose sfnts loop ran twice,
\* the calls for the entries after it having been made in turn.
C10_Witness ==
  /\ Completed
  /\ Converted(1)
  /\ Cardinality(Positions(OutFile(1).data, ">")) = 2
  /\ Printed(Generating(Len(Entries)))
====
